---- MODULE Spec2Model ----
(***************************************************************************)
(* Model of rocrand.hpp, the C++11 facade over the rocRAND backend:        *)
(* rocrand_cpp::error, detail::rng_engine, detail::prng_engine, the three  *)
(* engine classes and the three distribution templates.                    *)
(*                                                                         *)
(* The backend (rocrand_create_generator, ...) is the environment: every   *)
(* status it returns is drawn from Status by the action that issues the    *)
(* call.  Every facade operation is an operator that returns the backend   *)
(* calls it issued, in order, and the way it ended for its caller.         *)
(***************************************************************************)
EXTENDS Naturals, Sequences, FiniteSets

VARIABLES
    engines,       \* engine objects: [state, variant, m_generator] per object
    nextHandle,    \* backend: the next generator the backend will hand out
    destroyCount,  \* backend: rocrand_destroy_generator calls per generator
    terminated,    \* std::terminate was called: the program is over
    lastOp,        \* the facade operation that ran last, its calls and its end
    normal,        \* a normal_distribution<RealType> object: [RealType, m_params]
    expected       \* history: the parameters of the last param(p), or the constructor's

vars == <<engines, nextHandle, destroyCount, terminated, lastOp, normal,
          expected>>

----------------------------------------------------------------------------
(* Bounds of the model *)

MaxObjects == 2
MaxHandles == 2
MaxOffset == 1
MaxCount == 1

Objects == 1..MaxObjects
Handles == 1..MaxHandles
Offsets == 0..MaxOffset
Counts == 0..MaxCount
Streams == {"stream_0", "stream_1"}
Outputs == {"buf_a", "buf_b"}

----------------------------------------------------------------------------
(* rocrand_status, as the facade sees it: success or anything else *)

ROCRAND_STATUS_SUCCESS == "ROCRAND_STATUS_SUCCESS"
FailStatus == {"FAIL_A", "FAIL_B"}
Status == {ROCRAND_STATUS_SUCCESS} \cup FailStatus

(* The engine classes: template arguments of prng_engine *)
Variants == {"philox4x32_10_engine", "xorwow_engine", "mrg32k3a_engine"}

GeneratorType(variant) ==
    CASE variant = "philox4x32_10_engine" -> "ROCRAND_RNG_PSEUDO_PHILOX4_32_10"
      [] variant = "xorwow_engine"        -> "ROCRAND_RNG_PSEUDO_XORWOW"
      [] variant = "mrg32k3a_engine"      -> "ROCRAND_RNG_PSEUDO_MRG32K3A"

DefaultSeed(variant) ==
    CASE variant = "philox4x32_10_engine" -> "ROCRAND_PHILOX4x32_DEFAULT_SEED"
      [] variant = "xorwow_engine"        -> "ROCRAND_XORWOW_DEFAULT_SEED"
      [] variant = "mrg32k3a_engine"      -> "ROCRAND_MRG32K3A_DEFAULT_SEED"

(* Seeds are opaque 64-bit values: the facade only passes them on. A caller
   may pass any value, a default seed constant included. *)
Seeds == {"seed_12345", DefaultSeed("xorwow_engine")}

(* An optional constructor argument: <<>> when omitted, <<v>> when given *)
Omitted == <<>>
Given(v) == <<v>>
SeedArgs == {Omitted} \cup {Given(s) : s \in Seeds}
OffsetArgs == {Omitted} \cup {Given(o) : o \in Offsets}

(* The calls the constructor admits: E(), E(seed) and E(seed, offset). The
   default arguments are positional: no offset without a seed. *)
CtorArgs ==
    {args \in SeedArgs \X OffsetArgs : args[1] = Omitted => args[2] = Omitted}

NoHandle == 0

----------------------------------------------------------------------------
(* Backend calls. Every call record has every field, "" or 0 where the
   entry point has no such argument. *)

NoCall ==
    [fn |-> "", handle |-> NoHandle, rng_type |-> "", seed |-> "", offset |-> 0,
     stream |-> "", output |-> "", size |-> 0, mean |-> "", stddev |-> "",
     status |-> ROCRAND_STATUS_SUCCESS]

(* How an operation ends for its direct caller *)
Returned == [kind |-> "returned", code |-> ROCRAND_STATUS_SUCCESS]
Threw(s) == [kind |-> "threw", code |-> s]
Terminated(s) == [kind |-> "terminated", code |-> s]

(* error::error and error::error_code: the error keeps the status it was
   built from *)
error(status) == [m_error |-> status]
error_code(e) == e.m_error

(* if(status != ROCRAND_STATUS_SUCCESS) throw rocrand_cpp::error(status); *)
ThrowUnlessSuccess(status) ==
    IF status # ROCRAND_STATUS_SUCCESS
    THEN Threw(error_code(error(status)))
    ELSE Returned

----------------------------------------------------------------------------
(* detail::rng_engine. An operation is [calls, outcome]: the backend calls it
   issued, in order, and how it ended. *)

Op(calls, outcome) == [calls |-> calls, outcome |-> outcome]

(* Mutant: the constructor does not look at the status of create *)
rng_engine_unchecked(type, h, status) ==
    Op(<<[NoCall EXCEPT !.fn = "rocrand_create_generator",
                        !.handle = IF status = ROCRAND_STATUS_SUCCESS
                                   THEN h ELSE NoHandle,
                        !.rng_type = type, !.status = status]>>,
       Returned)

(* rng_engine(): h is the generator the backend hands out when it succeeds *)
rng_engine(type, h, status) ==
    Op(<<[NoCall EXCEPT !.fn = "rocrand_create_generator",
                        !.handle = IF status = ROCRAND_STATUS_SUCCESS
                                   THEN h ELSE NoHandle,
                        !.rng_type = type, !.status = status]>>,
       ThrowUnlessSuccess(status))

(* A throw that leaves a destructor. The destructor has no exception
   specification, so in C++11 it is noexcept(true) (its only member is a
   pointer): the exception cannot leave it and std::terminate is called. *)
ThrowFromDestructor(outcome) ==
    IF outcome.kind = "threw" THEN Terminated(outcome.code) ELSE outcome

(* ~rng_engine() *)
rng_engine_destructor(m_generator, status) ==
    Op(<<[NoCall EXCEPT !.fn = "rocrand_destroy_generator",
                        !.handle = m_generator, !.status = status]>>,
       ThrowFromDestructor(ThrowUnlessSuccess(status)))

(* rng_engine::stream(value) *)
stream(m_generator, value, status) ==
    Op(<<[NoCall EXCEPT !.fn = "rocrand_set_stream", !.handle = m_generator,
                        !.stream = value, !.status = status]>>,
       ThrowUnlessSuccess(status))

(* prng_engine::seed(value) *)
seed(m_generator, value, status) ==
    Op(<<[NoCall EXCEPT !.fn = "rocrand_set_seed", !.handle = m_generator,
                        !.seed = value, !.status = status]>>,
       ThrowUnlessSuccess(status))

(* prng_engine::offset(value) *)
offset(m_generator, value, status) ==
    Op(<<[NoCall EXCEPT !.fn = "rocrand_set_offset", !.handle = m_generator,
                        !.offset = value, !.status = status]>>,
       ThrowUnlessSuccess(status))

(* An exception leaves the body of prng_engine's constructor: the base
   subobject is complete, so ~rng_engine() runs while the stack unwinds, and
   the exception goes on to the caller unless the destructor ends the
   program. *)
Unwind(before, m_generator, destroy_status) ==
    LET d == rng_engine_destructor(m_generator, destroy_status)
    IN  Op(before.calls \o d.calls,
           IF d.outcome.kind = "terminated" THEN d.outcome ELSE before.outcome)

Then(first, second) == Op(first.calls \o second.calls, second.outcome)

(* The statuses the backend returns to one constructor call *)
CtorStatus == [create : Status, seed : Status, offset : Status, destroy : Status]

(* Mutant: the constructor sets the offset whatever its value *)
prng_engine_offset_always(variant, seedArg, offsetArg, h, sts) ==
    LET seed_value   == IF seedArg = Omitted THEN DefaultSeed(variant) ELSE seedArg[1]
        offset_value == IF offsetArg = Omitted THEN 0 ELSE offsetArg[1]
        base   == rng_engine(GeneratorType(variant), h, sts.create)
        seeded == Then(base, seed(h, seed_value, sts.seed))
        placed == Then(seeded, offset(h, offset_value, sts.offset))
    IN  IF base.outcome.kind = "threw" THEN base
        ELSE IF seeded.outcome.kind = "threw" THEN Unwind(seeded, h, sts.destroy)
        ELSE IF placed.outcome.kind = "threw"
             THEN Unwind(placed, h, sts.destroy)
             ELSE placed

(* prng_engine(seed_value = DefaultSeed, offset_value = 0) *)
prng_engine(variant, seedArg, offsetArg, h, sts) ==
    LET seed_value   == IF seedArg = Omitted THEN DefaultSeed(variant) ELSE seedArg[1]
        offset_value == IF offsetArg = Omitted THEN 0 ELSE offsetArg[1]
        base   == rng_engine(GeneratorType(variant), h, sts.create)
        seeded == Then(base, seed(h, seed_value, sts.seed))
        placed == Then(seeded, offset(h, offset_value, sts.offset))
    IN  IF base.outcome.kind = "threw" THEN base
        ELSE IF seeded.outcome.kind = "threw" THEN Unwind(seeded, h, sts.destroy)
        ELSE IF offset_value > 0
             THEN IF placed.outcome.kind = "threw"
                  THEN Unwind(placed, h, sts.destroy)
                  ELSE placed
             ELSE seeded

(* The implicit copy constructor and copy assignment operator of the engine
   classes (no copy operation is declared or deleted): the member m_generator
   is copied. *)
engine_copy(source) == source.m_generator

----------------------------------------------------------------------------
(* The distributions *)

(* RealType values: the cases of IEEE 754 that operator== tells apart *)
NaN == "NaN"
FloatVals == {NaN, "-0.0", "0.0", "1.0"}
RealTypes == {"float", "double"}

(* The number a RealType value stands for (NaN stands for none) *)
Zeroes == {"-0.0", "0.0"}

(* operator== of float and of double: false whenever an operand is NaN, and
   true of the two zeroes *)
FloatEq(x, y) ==
    /\ x # NaN
    /\ y # NaN
    /\ (x = y \/ (x \in Zeroes /\ y \in Zeroes))

(* normal_distribution::param_type(mean = 0.0, stddev = 1.0) *)
param_type(mean, stddev) == [m_mean |-> mean, m_stddev |-> stddev]
ParamVals == {param_type(m, d) : m \in FloatVals, d \in FloatVals}
DefaultParams == param_type("0.0", "1.0")

(* param_type::mean() and param_type::stddev() *)
param_mean(p) == p.m_mean
param_stddev(p) == p.m_stddev

(* Mutant: operator== compares the means only *)
param_eq_mean_only(a, b) == FloatEq(a.m_mean, b.m_mean)

(* param_type::operator== *)
param_eq(a, b) == FloatEq(a.m_mean, b.m_mean) /\ FloatEq(a.m_stddev, b.m_stddev)

(* param_type::operator!= *)
param_ne(a, b) == ~param_eq(a, b)

(* normal_distribution::mean(), stddev(), param() *)
mean(params) == param_mean(params)
stddev(params) == param_stddev(params)
param(params) == params

(* normal_distribution::param(const param_type&): the new m_params *)
set_param(params, p) == p

(* Mutant: reset() puts the default parameters back *)
reset_to_default(params) == DefaultParams

(* The implicit copy assignment of normal_distribution (no copy operation is
   declared or deleted): the member m_params is copied from the source *)
normal_copy(source_params) == source_params

(* reset() of the three distributions: the new m_params of a normal
   distribution; the other two have no member *)
reset(params) == params

(* uniform_int_distribution<unsigned int>::operator() *)
uniform_int_distribution(m_generator, output, size, status) ==
    Op(<<[NoCall EXCEPT !.fn = "rocrand_generate", !.handle = m_generator,
                        !.output = output, !.size = size, !.status = status]>>,
       ThrowUnlessSuccess(status))

(* Mutant: both overloads call the float entry point *)
uniform_real_generate_float_only(RealType, m_generator, output, size, status) ==
    [NoCall EXCEPT !.fn = "rocrand_generate_uniform",
                   !.handle = m_generator, !.output = output, !.size = size,
                   !.status = status]

(* uniform_real_distribution<RealType>::generate, the overload for float* and
   the one for double* *)
uniform_real_generate(RealType, m_generator, output, size, status) ==
    [NoCall EXCEPT !.fn = IF RealType = "float"
                          THEN "rocrand_generate_uniform"
                          ELSE "rocrand_generate_uniform_double",
                   !.handle = m_generator, !.output = output, !.size = size,
                   !.status = status]

(* uniform_real_distribution<RealType>::operator() *)
uniform_real_distribution(RealType, m_generator, output, size, status) ==
    LET call == uniform_real_generate(RealType, m_generator, output, size, status)
    IN  Op(<<call>>, ThrowUnlessSuccess(call.status))

(* normal_distribution<RealType>::generate, both overloads *)
normal_generate(RealType, params, m_generator, output, size, status) ==
    [NoCall EXCEPT !.fn = IF RealType = "float"
                          THEN "rocrand_generate_normal"
                          ELSE "rocrand_generate_normal_double",
                   !.handle = m_generator, !.output = output, !.size = size,
                   !.mean = mean(params), !.stddev = stddev(params),
                   !.status = status]

(* normal_distribution<RealType>::operator() *)
normal_distribution(RealType, params, m_generator, output, size, status) ==
    LET call == normal_generate(RealType, params, m_generator, output, size, status)
    IN  Op(<<call>>, ThrowUnlessSuccess(call.status))

(* The distribution objects a caller can apply, each the class and its
   template argument (the static_asserts admit no other): the stateless ones,
   and the normal_distribution object of the state *)
Distributions(RealType) ==
    {<<"uniform_int_distribution", "unsigned int">>,
     <<"uniform_real_distribution", "float">>,
     <<"uniform_real_distribution", "double">>,
     <<"normal_distribution", RealType>>}

(* dist(g, output, size) *)
Apply(dist, params, m_generator, output, size, status) ==
    CASE dist[1] = "uniform_int_distribution" ->
            uniform_int_distribution(m_generator, output, size, status)
      [] dist[1] = "uniform_real_distribution" ->
            uniform_real_distribution(dist[2], m_generator, output, size, status)
      [] dist[1] = "normal_distribution" ->
            normal_distribution(dist[2], params, m_generator, output, size,
                                status)

----------------------------------------------------------------------------
(* The state *)

NoObject == [state |-> "none", variant |-> "", m_generator |-> NoHandle]

(* lastOp when nothing ran yet; an action sets the fields it has *)
NoOp ==
    [op |-> "", prev |-> "", object |-> 0, source |-> 0, variant |-> "", seedArg |-> Omitted,
     offsetArg |-> Omitted, stream |-> "", seed |-> "", offset |-> 0,
     dist |-> <<"", "">>, output |-> "", size |-> 0, RealType |-> "",
     p |-> DefaultParams, q |-> DefaultParams, eq |-> FALSE, ne |-> FALSE,
     calls |-> <<>>, outcome |-> Returned]


(* rocrand_destroy_generator calls, added to the backend's count *)
RECURSIVE Destroys(_, _)
Destroys(calls, h) ==
    IF calls = <<>> THEN 0
    ELSE (IF Head(calls).fn = "rocrand_destroy_generator" /\ Head(calls).handle = h
          THEN 1 ELSE 0) + Destroys(Tail(calls), h)

Counted(count, calls) == [h \in Handles |-> count[h] + Destroys(calls, h)]

Live(o) == engines[o].state = "live"

(* Objects are numbered in the order they come to exist *)
Fresh(o) ==
    /\ engines[o].state = "none"
    /\ \A k \in Objects : k < o => engines[k].state # "none"

Init ==
    /\ engines = [o \in Objects |-> NoObject]
    /\ nextHandle = 1
    /\ destroyCount = [h \in Handles |-> 0]
    /\ terminated = FALSE
    /\ lastOp = NoOp
    /\ \E T \in RealTypes : normal = [RealType |-> T, m_params |-> DefaultParams]
    /\ expected = normal.m_params

(* The backend's part of an operation r: generators handed out and destroyed,
   and the end of the program *)
Backend(r) ==
    /\ nextHandle' = IF r.calls # <<>>
                        /\ r.calls[1].fn = "rocrand_create_generator"
                        /\ r.calls[1].status = ROCRAND_STATUS_SUCCESS
                     THEN nextHandle + 1 ELSE nextHandle
    /\ destroyCount' = Counted(destroyCount, r.calls)
    /\ terminated' = (r.outcome.kind = "terminated")

(* A status is drawn for a backend call that is issued: the one of a call
   that is not issued is left at success *)
Answered(calls, sts) ==
    \A f \in {"seed", "offset", "destroy"} :
        sts[f] # ROCRAND_STATUS_SUCCESS =>
            \E i \in 1..Len(calls) :
                calls[i].fn = (CASE f = "seed" -> "rocrand_set_seed"
                                 [] f = "offset" -> "rocrand_set_offset"
                                 [] f = "destroy" -> "rocrand_destroy_generator")

(* variant object(seedArg, offsetArg); the object exists when the constructor
   returns *)
Construct(o, variant, seedArg, offsetArg, sts) ==
    /\ ~terminated
    /\ <<seedArg, offsetArg>> \in CtorArgs
    /\ Fresh(o)
    /\ nextHandle <= MaxHandles
    /\ LET r == prng_engine(variant, seedArg, offsetArg, nextHandle, sts)
       IN  /\ Answered(r.calls, sts)
           /\ engines' = IF r.outcome.kind = "returned"
                         THEN [engines EXCEPT ![o] = [state |-> "live",
                                                      variant |-> variant,
                                                      m_generator |-> nextHandle]]
                         ELSE engines
           /\ lastOp' = [NoOp EXCEPT !.op = "construct", !.object = o,
                                     !.variant = variant, !.seedArg = seedArg,
                                     !.offsetArg = offsetArg, !.calls = r.calls,
                                     !.outcome = r.outcome]
           /\ Backend(r)
    /\ UNCHANGED <<normal, expected>>

(* variant object(source): the implicit copy constructor *)
CopyConstruct(o, source) ==
    /\ ~terminated
    /\ Fresh(o)
    /\ Live(source)
    /\ engines' = [engines EXCEPT ![o] = [state |-> "live",
                                          variant |-> engines[source].variant,
                                          m_generator |-> engine_copy(engines[source])]]
    /\ lastOp' = [NoOp EXCEPT !.op = "copy_construct", !.object = o,
                              !.source = source]
    /\ UNCHANGED <<nextHandle, destroyCount, terminated, normal, expected>>

(* object = source: the implicit copy assignment, between engines of one class *)
CopyAssign(o, source) ==
    /\ ~terminated
    /\ Live(o)
    /\ Live(source)
    /\ engines[o].variant = engines[source].variant
    /\ engines' = [engines EXCEPT ![o].m_generator = engine_copy(engines[source])]
    /\ lastOp' = [NoOp EXCEPT !.op = "copy_assign", !.object = o,
                              !.source = source]
    /\ UNCHANGED <<nextHandle, destroyCount, terminated, normal, expected>>

(* The end of the object's lifetime: ~variant(), ~prng_engine() (empty) and
   ~rng_engine() *)
Destroy(o, status) ==
    /\ ~terminated
    /\ Live(o)
    /\ LET r == rng_engine_destructor(engines[o].m_generator, status)
       IN  /\ engines' = [engines EXCEPT ![o] = [NoObject EXCEPT !.state = "gone"]]
           /\ lastOp' = [NoOp EXCEPT !.op = "destroy", !.object = o,
                                     !.calls = r.calls, !.outcome = r.outcome]
           /\ Backend(r)
    /\ UNCHANGED <<normal, expected>>

(* object.stream(value) *)
Stream(o, value, status) ==
    /\ ~terminated
    /\ Live(o)
    /\ LET r == stream(engines[o].m_generator, value, status)
       IN  /\ lastOp' = [NoOp EXCEPT !.op = "stream", !.object = o,
                                     !.stream = value, !.calls = r.calls,
                                     !.outcome = r.outcome]
           /\ Backend(r)
    /\ UNCHANGED <<engines, normal, expected>>

(* object.seed(value) *)
Seed(o, value, status) ==
    /\ ~terminated
    /\ Live(o)
    /\ LET r == seed(engines[o].m_generator, value, status)
       IN  /\ lastOp' = [NoOp EXCEPT !.op = "seed", !.object = o,
                                     !.seed = value, !.calls = r.calls,
                                     !.outcome = r.outcome]
           /\ Backend(r)
    /\ UNCHANGED <<engines, normal, expected>>

(* object.offset(value) *)
Offset(o, value, status) ==
    /\ ~terminated
    /\ Live(o)
    /\ LET r == offset(engines[o].m_generator, value, status)
       IN  /\ lastOp' = [NoOp EXCEPT !.op = "offset", !.object = o,
                                     !.offset = value, !.calls = r.calls,
                                     !.outcome = r.outcome]
           /\ Backend(r)
    /\ UNCHANGED <<engines, normal, expected>>

(* dist(object, output, size) *)
Generate(o, dist, output, size, status) ==
    /\ ~terminated
    /\ Live(o)
    /\ dist \in Distributions(normal.RealType)
    /\ LET r == Apply(dist, normal.m_params, engines[o].m_generator, output, size,
                      status)
       IN  /\ lastOp' = [NoOp EXCEPT !.op = "generate", !.object = o,
                                     !.dist = dist, !.output = output,
                                     !.size = size, !.calls = r.calls,
                                     !.outcome = r.outcome]
           /\ Backend(r)
    /\ UNCHANGED <<engines, normal, expected>>

Next ==
    \/ \E o \in Objects, v \in Variants, args \in CtorArgs, sts \in CtorStatus :
          Construct(o, v, args[1], args[2], sts)
    \/ \E o \in Objects, source \in Objects : CopyConstruct(o, source)
    \/ \E o \in Objects, source \in Objects : CopyAssign(o, source)
    \/ \E o \in Objects, st \in Status : Destroy(o, st)
    \/ \E o \in Objects, value \in Streams, st \in Status : Stream(o, value, st)
    \/ \E o \in Objects, value \in Seeds, st \in Status : Seed(o, value, st)
    \/ \E o \in Objects, value \in Offsets, st \in Status : Offset(o, value, st)
    \/ \E o \in Objects, dist \in Distributions(normal.RealType),
          output \in Outputs, size \in Counts, st \in Status :
          Generate(o, dist, output, size, st)

Spec == Init /\ [][Next]_vars

----------------------------------------------------------------------------
(* SpecCtor: construction and destruction of engines *)

NextCtor ==
    \/ \E o \in Objects, v \in Variants, args \in CtorArgs, sts \in CtorStatus :
          Construct(o, v, args[1], args[2], sts)
    \/ \E o \in Objects, st \in Status : Destroy(o, st)

InitCtor == Init /\ normal.RealType = "float"

SpecCtor == InitCtor /\ [][NextCtor]_vars

----------------------------------------------------------------------------
(* SpecDist: the distributions, applied to two engines that were constructed,
   with a normal_distribution constructed from any mean and stddev *)

InitDist ==
    /\ engines = [o \in Objects |->
                    CASE o = 1 -> [state |-> "live", variant |-> "philox4x32_10_engine",
                                   m_generator |-> 1]
                      [] o = 2 -> [state |-> "live", variant |-> "xorwow_engine",
                                   m_generator |-> 2]
                      [] OTHER -> NoObject]
    /\ nextHandle = 3
    /\ destroyCount = [h \in Handles |-> 0]
    /\ terminated = FALSE
    /\ lastOp = NoOp
    /\ \E T \in RealTypes, mean_arg \in FloatVals, stddev_arg \in FloatVals :
          normal = [RealType |-> T, m_params |-> param_type(mean_arg, stddev_arg)]
    /\ expected = normal.m_params

(* dist.reset() *)
Reset(dist) ==
    /\ ~terminated
    /\ dist \in Distributions(normal.RealType)
    /\ normal' = IF dist[1] = "normal_distribution"
                 THEN [normal EXCEPT !.m_params = reset(normal.m_params)]
                 ELSE normal
    /\ lastOp' = [NoOp EXCEPT !.op = "reset", !.dist = dist]
    /\ UNCHANGED <<engines, nextHandle, destroyCount, terminated, expected>>

(* normal.param(p) *)
Param(p) ==
    /\ ~terminated
    /\ normal' = [normal EXCEPT !.m_params = set_param(normal.m_params, p)]
    /\ expected' = p
    /\ lastOp' = [NoOp EXCEPT !.op = "set_param", !.p = p]
    /\ UNCHANGED <<engines, nextHandle, destroyCount, terminated>>

(* normal = normal_distribution<RealType>(mean_arg, stddev_arg): the implicit
   copy assignment. No param(p) is called. *)
Assign(mean_arg, stddev_arg) ==
    /\ ~terminated
    /\ normal' = [normal EXCEPT
                    !.m_params = normal_copy(param_type(mean_arg, stddev_arg))]
    /\ lastOp' = [NoOp EXCEPT !.op = "assign",
                              !.p = param_type(mean_arg, stddev_arg)]
    /\ UNCHANGED <<engines, nextHandle, destroyCount, terminated, expected>>

(* normal.param(), with normal.mean() and normal.stddev() *)
GetParam ==
    /\ ~terminated
    /\ lastOp' = [NoOp EXCEPT !.op = "param", !.prev = lastOp.op,
                              !.p = param(normal.m_params),
                              !.q = param_type(mean(normal.m_params),
                                               stddev(normal.m_params))]
    /\ UNCHANGED <<engines, nextHandle, destroyCount, terminated, normal, expected>>

(* normal.param() == q and normal.param() != q *)
Compare(q) ==
    /\ ~terminated
    /\ lastOp' = [NoOp EXCEPT !.op = "compare", !.p = param(normal.m_params),
                              !.q = q,
                              !.eq = param_eq(param(normal.m_params), q),
                              !.ne = param_ne(param(normal.m_params), q)]
    /\ UNCHANGED <<engines, nextHandle, destroyCount, terminated, normal, expected>>

(* The distributions a normal_distribution is assigned from *)
AssignSources == {DefaultParams, param_type(NaN, "0.0")}

NextDist ==
    \/ \E o \in Objects, dist \in Distributions(normal.RealType),
          output \in Outputs, size \in Counts, st \in Status :
          Generate(o, dist, output, size, st)
    \/ \E dist \in Distributions(normal.RealType) : Reset(dist)
    \/ \E p \in ParamVals : Param(p)
    \/ GetParam
    \/ \E q \in ParamVals : Compare(q)
    \/ \E source \in AssignSources : Assign(source.m_mean, source.m_stddev)

SpecDist == InitDist /\ [][NextDist]_vars

----------------------------------------------------------------------------
(* Vocabulary of the properties *)

SUCCESS == ROCRAND_STATUS_SUCCESS
call == IF lastOp.calls = <<>> THEN NoCall ELSE lastOp.calls[1]
Issued(fn) == {i \in 1..Len(lastOp.calls) : lastOp.calls[i].fn = fn}
Holders(h) == {o \in Objects : Live(o) /\ engines[o].m_generator = h}
Created == 1..(nextHandle - 1)

(* C1: every backend-facing operation issues its backend call once, raises an
   error to its caller exactly when the status is not success, and the error
   carries that status. *)
C1_ErrorContract ==
    /\ lastOp.op \in {"stream", "seed", "offset", "generate", "destroy"} =>
          /\ Len(lastOp.calls) = 1
          /\ (lastOp.outcome.kind = "threw") = (call.status # SUCCESS)
          /\ (lastOp.outcome.kind = "returned") = (call.status = SUCCESS)
          /\ lastOp.outcome.code = call.status
    /\ lastOp.op = "construct" =>
          /\ Issued("rocrand_create_generator") = {1}
          /\ call.status # SUCCESS => lastOp.outcome = Threw(call.status)
          /\ lastOp.outcome.kind = "returned" =>
                \A i \in 1..Len(lastOp.calls) : lastOp.calls[i].status = SUCCESS

(* C2: a live engine object refers to one created resource that was not
   destroyed, no two live engine objects refer to the same resource, and a
   created resource is destroyed at most once, and exactly once when no live
   object refers to it. *)
C2_ExclusiveOwnership ==
    /\ \A o \in Objects : Live(o) =>
          /\ engines[o].m_generator \in Created
          /\ destroyCount[engines[o].m_generator] = 0
    /\ \A h \in Created :
          /\ Cardinality(Holders(h)) <= 1
          /\ destroyCount[h] <= 1
          /\ Holders(h) = {} => destroyCount[h] = 1

(* C5: destroying an engine issues one destroy call, ends the object, reports
   a non-success status as an error carrying it, and does not end the
   program. *)
C5_DestroyCompletes ==
    lastOp.op = "destroy" =>
        /\ Len(lastOp.calls) = 1
        /\ call.fn = "rocrand_destroy_generator"
        /\ engines[lastOp.object].state = "gone"
        /\ lastOp.outcome.code = call.status
        /\ lastOp.outcome.kind # "terminated"
        /\ ~terminated

(* The first configuration call of the constructor that failed, 0 if none *)
FailedStep ==
    LET failed == {i \in 2..Len(lastOp.calls) :
                      /\ lastOp.calls[i].fn \in {"rocrand_set_seed", "rocrand_set_offset"}
                      /\ lastOp.calls[i].status # SUCCESS}
    IN  IF failed = {} THEN 0 ELSE CHOOSE i \in failed : \A j \in failed : i <= j

(* C10: when create succeeds and set_seed or set_offset fails, the constructor
   raises an error carrying the failing status, issues nothing after the
   failing call but one destroy of the created resource, and leaves no engine
   object and no resource. *)
C10_FailedConfigureReleases ==
    (lastOp.op = "construct" /\ call.status = SUCCESS /\ FailedStep # 0) =>
        LET i == FailedStep
            h == call.handle
        IN  /\ lastOp.outcome = Threw(lastOp.calls[i].status)
            /\ Len(lastOp.calls) = i + 1
            /\ lastOp.calls[i + 1].fn = "rocrand_destroy_generator"
            /\ lastOp.calls[i + 1].handle = h
            /\ (lastOp.calls[i].fn = "rocrand_set_seed" => i = 2)
            /\ engines[lastOp.object].state = "none"
            /\ Holders(h) = {}
            /\ destroyCount[h] = 1
            /\ ~terminated

----------------------------------------------------------------------------
(* Construction *)

(* The algorithm identifier and the default seed constant of each engine
   class, as the class definitions give them *)
AlgorithmOf(variant) ==
    IF variant = "philox4x32_10_engine" THEN "ROCRAND_RNG_PSEUDO_PHILOX4_32_10"
    ELSE IF variant = "xorwow_engine" THEN "ROCRAND_RNG_PSEUDO_XORWOW"
    ELSE "ROCRAND_RNG_PSEUDO_MRG32K3A"

DefaultSeedOf(variant) ==
    IF variant = "philox4x32_10_engine" THEN "ROCRAND_PHILOX4x32_DEFAULT_SEED"
    ELSE IF variant = "xorwow_engine" THEN "ROCRAND_XORWOW_DEFAULT_SEED"
    ELSE "ROCRAND_MRG32K3A_DEFAULT_SEED"

AllSucceeded == \A i \in 1..Len(lastOp.calls) : lastOp.calls[i].status = SUCCESS

(* The calls a construction is to issue on generator h *)
ConstructionCalls(variant, seedArg, offsetArg, h) ==
    <<[NoCall EXCEPT !.fn = "rocrand_create_generator", !.handle = h,
                     !.rng_type = AlgorithmOf(variant)],
      [NoCall EXCEPT !.fn = "rocrand_set_seed", !.handle = h,
                     !.seed = IF seedArg = Omitted THEN DefaultSeedOf(variant)
                              ELSE seedArg[1]]>>
    \o (IF offsetArg # Omitted /\ offsetArg[1] > 0
        THEN <<[NoCall EXCEPT !.fn = "rocrand_set_offset", !.handle = h,
                              !.offset = offsetArg[1]]>>
        ELSE <<>>)

(* C3: when every backend call succeeds, a construction issues create with the
   class's algorithm, then one set_seed with the given seed or the class's
   default seed, then one set_offset with the given offset when it is greater
   than 0 and none otherwise, and nothing else. *)
C3_ConstructionSequence ==
    (lastOp.op = "construct" /\ AllSucceeded) =>
        /\ lastOp.outcome = Returned
        /\ Live(lastOp.object)
        /\ lastOp.calls = ConstructionCalls(lastOp.variant, lastOp.seedArg,
                                            lastOp.offsetArg,
                                            engines[lastOp.object].m_generator)

(* A second engine, a mrg32k3a_engine, constructed with no argument: its seed
   is the class's default and no offset is set *)
C3_Witness ==
    /\ lastOp.op = "construct"
    /\ AllSucceeded
    /\ lastOp.variant = "mrg32k3a_engine"
    /\ lastOp.seedArg = Omitted
    /\ lastOp.offsetArg = Omitted
    /\ Len(lastOp.calls) = 2
    /\ lastOp.calls[2].seed = "ROCRAND_MRG32K3A_DEFAULT_SEED"
    /\ lastOp.object = 2
    /\ Live(1)

CreateFailed == lastOp.op = "construct" /\ call.status # SUCCESS

(* C4: when create fails in a construction, the constructor raises an error
   carrying that status, create is the only backend call (no set_seed, no
   set_offset, no destroy), and the step leaves no engine object and no
   backend resource: objects and resources are as before it. *)
C4_FailedCreate ==
    /\ [](CreateFailed =>
            /\ lastOp.outcome = Threw(call.status)
            /\ Len(lastOp.calls) = 1
            /\ call.fn = "rocrand_create_generator"
            /\ call.handle = NoHandle
            /\ engines[lastOp.object].state = "none"
            /\ ~terminated)
    /\ [][CreateFailed' =>
            /\ engines' = engines
            /\ nextHandle' = nextHandle
            /\ destroyCount' = destroyCount]_vars

(* A construction whose create failed, after an engine was constructed *)
C4_Witness ==
    /\ CreateFailed
    /\ call.status = "FAIL_B"
    /\ lastOp.object = 2
    /\ Live(1)

----------------------------------------------------------------------------
(* Distributions *)

(* The backend entry point of each distribution and element type *)
EntryPoint(dist) ==
    IF dist = <<"uniform_int_distribution", "unsigned int">> THEN "rocrand_generate"
    ELSE IF dist = <<"uniform_real_distribution", "float">> THEN "rocrand_generate_uniform"
    ELSE IF dist = <<"uniform_real_distribution", "double">>
         THEN "rocrand_generate_uniform_double"
    ELSE IF dist = <<"normal_distribution", "float">> THEN "rocrand_generate_normal"
    ELSE IF dist = <<"normal_distribution", "double">>
         THEN "rocrand_generate_normal_double"
    ELSE "none"

(* C6: one application of a distribution issues one backend generation call,
   on the engine's own generator, with the caller's output pointer and count;
   the entry point is the one of the distribution and element type; a normal
   distribution's call carries its mean and stddev of that moment. *)
C6_Dispatch ==
    lastOp.op = "generate" =>
        /\ Len(lastOp.calls) = 1
        /\ call.fn = EntryPoint(lastOp.dist)
        /\ call.handle = engines[lastOp.object].m_generator
        /\ call.output = lastOp.output
        /\ call.size = lastOp.size
        /\ IF lastOp.dist[1] = "normal_distribution"
           THEN /\ call.mean = normal.m_params.m_mean
                /\ call.stddev = normal.m_params.m_stddev
           ELSE call.mean = "" /\ call.stddev = ""
        /\ call.rng_type = "" /\ call.seed = "" /\ call.stream = ""
        /\ call.offset = 0

(* normal_distribution<double> with parameters that are not the default,
   applied to the second engine *)
C6_Witness ==
    /\ lastOp.op = "generate"
    /\ lastOp.dist = <<"normal_distribution", "double">>
    /\ lastOp.object = 2
    /\ lastOp.size = MaxCount
    /\ call.mean = "1.0"
    /\ call.stddev = "-0.0"
    /\ expected = param_type("1.0", "-0.0")

(* The numbers two RealType values stand for are equal (IEEE 754: NaN equals
   nothing, the two zeroes are equal) *)
Number(x) == IF x = "1.0" THEN 1 ELSE 0
SameNumber(x, y) == x # "NaN" /\ y # "NaN" /\ Number(x) = Number(y)
HasNaN(p) == p.m_mean = "NaN" \/ p.m_stddev = "NaN"
RoundTrip == lastOp.op = "param" /\ lastOp.prev = "set_param"

(* C7 as stated: param(p) followed by param() returns a value that compares
   equal to p, mean() and stddev() return p's; a == b holds exactly when both
   members are equal, and a != b is its negation. *)
C7_RoundTripEqual ==
    /\ RoundTrip =>
          /\ param_eq(lastOp.p, expected)
          /\ lastOp.q = expected
    /\ lastOp.op = "compare" =>
          /\ lastOp.eq = (SameNumber(lastOp.p.m_mean, lastOp.q.m_mean)
                          /\ SameNumber(lastOp.p.m_stddev, lastOp.q.m_stddev))
          /\ lastOp.ne = ~lastOp.eq

(* C7, amended: param(p) followed by param() returns p's mean and stddev
   unchanged, as do mean() and stddev(), and the value compares equal to p
   exactly when neither is NaN; a == b holds exactly when the means are equal
   and the stddevs are equal as floating-point numbers, and a != b is its
   negation. *)
C7_RoundTripSame ==
    /\ RoundTrip =>
          /\ lastOp.p = expected
          /\ lastOp.q = expected
          /\ param_eq(lastOp.p, expected) = ~HasNaN(expected)
          /\ param_ne(lastOp.p, expected) = HasNaN(expected)
    /\ lastOp.op = "compare" =>
          /\ lastOp.eq = (SameNumber(lastOp.p.m_mean, lastOp.q.m_mean)
                          /\ SameNumber(lastOp.p.m_stddev, lastOp.q.m_stddev))
          /\ lastOp.ne = ~lastOp.eq

(* param(p) with a NaN mean, read back *)
C7_Witness ==
    /\ RoundTrip
    /\ expected = param_type("NaN", "1.0")
    /\ lastOp.p = expected

(* C8 as stated: reset() issues no backend call, and after any sequence of
   operations the normal distribution's parameters are those of the last
   param(p), or of the constructor when param(p) was never called. *)
C8_ParamsOfLastParam ==
    /\ normal.m_params = expected
    /\ lastOp.op = "reset" => lastOp.calls = <<>> /\ lastOp.outcome = Returned

(* C8, amended: reset() of a distribution issues no backend call and changes
   nothing; applying a distribution leaves the normal distribution's
   parameters alone, whatever the backend answers; the parameters change only
   in param(p) and in the assignment of another distribution, to the
   parameters given, so they are always those of the last param(p) or
   assignment, or of the constructor. *)
C8_ParamsPersist ==
    /\ [](lastOp.op = "reset" => lastOp.calls = <<>> /\ lastOp.outcome = Returned)
    /\ [][lastOp'.op = "reset" =>
            UNCHANGED <<engines, nextHandle, destroyCount, terminated, normal>>]_vars
    /\ [][lastOp'.op = "generate" => normal' = normal]_vars
    /\ [][normal' # normal =>
            /\ lastOp'.op \in {"set_param", "assign"}
            /\ normal' = [normal EXCEPT !.m_params = lastOp'.p]]_vars
    /\ [][lastOp'.op \in {"set_param", "assign"} =>
            normal'.m_params = lastOp'.p]_vars

(* reset() of a normal distribution whose parameters came from an assignment
   and are not those of the last param(p) *)
C8_Witness ==
    /\ lastOp.op = "reset"
    /\ lastOp.dist[1] = "normal_distribution"
    /\ normal.m_params = param_type(NaN, "0.0")
    /\ expected = param_type("1.0", "NaN")

====
